---- MODULE Spec2Model ----
(***************************************************************************)
(* A model of companion_scripts/not_updog.py: the HTTP file server with    *)
(* its XOR keystream, its path check, its directory listing, its download  *)
(* encodings and its streaming multipart upload.                           *)
(*                                                                         *)
(* Strings and byte strings are sequences of character codes (0..255), so  *)
(* that prefix tests, splitting, path normalisation and the XOR transform  *)
(* are computed the way the code computes them.                            *)
(***************************************************************************)
EXTENDS Integers, Sequences, FiniteSets, TLC

(***************************************************************************)
(* Bounds of the model.                                                    *)
(***************************************************************************)
\* CHUNK_SIZE is 4 * 1024 * 1024 in not_updog.py:13. The model scales it
\* down; 4 is the smallest value for which a payload of one chunk minus one,
\* one chunk and one chunk plus one byte behave as they do at full scale
\* (the line terminator of the framing is two bytes long).
CHUNK_SIZE == 4
\* Connections accepted over one run of the server.
MaxRequests == 2
\* Segments of a GET request path.
MaxDepth == 2
\* Length of the byte strings xor_mask is applied to on its own.
MaxMaskLen == 3
\* Largest offset xor_mask is applied with on its own: past the key's end.
MaxOffset == 17

(***************************************************************************)
(* Characters.                                                             *)
(***************************************************************************)
Ord ==
  [c \in {"a"} |-> 97] @@ [c \in {"b"} |-> 98] @@ [c \in {"c"} |-> 99] @@
  [c \in {"d"} |-> 100] @@ [c \in {"e"} |-> 101] @@ [c \in {"f"} |-> 102] @@
  [c \in {"g"} |-> 103] @@ [c \in {"h"} |-> 104] @@ [c \in {"i"} |-> 105] @@
  [c \in {"l"} |-> 108] @@ [c \in {"m"} |-> 109] @@ [c \in {"n"} |-> 110] @@
  [c \in {"o"} |-> 111] @@ [c \in {"p"} |-> 112] @@ [c \in {"r"} |-> 114] @@
  [c \in {"s"} |-> 115] @@ [c \in {"t"} |-> 116] @@ [c \in {"u"} |-> 117] @@
  [c \in {"x"} |-> 120] @@ [c \in {"y"} |-> 121] @@
  [c \in {"A"} |-> 65] @@ [c \in {"C"} |-> 67] @@ [c \in {"D"} |-> 68] @@
  [c \in {"T"} |-> 84] @@ [c \in {"X"} |-> 88] @@ [c \in {"Y"} |-> 89] @@
  [c \in {"2"} |-> 50] @@
  [c \in {"/"} |-> 47] @@ [c \in {"."} |-> 46] @@ [c \in {"-"} |-> 45] @@
  [c \in {"%"} |-> 37] @@ [c \in {";"} |-> 59] @@ [c \in {":"} |-> 58] @@
  [c \in {"="} |-> 61] @@ [c \in {" "} |-> 32] @@ [c \in {"#"} |-> 35] @@
  [c \in {"q"} |-> 34] @@ [c \in {"R"} |-> 13] @@ [c \in {"N"} |-> 10]

\* The string spelled by a tuple of one-character strings. "q" stands for
\* the double quote, "R" for carriage return and "N" for line feed.
B(t) == [i \in 1..Len(t) |-> Ord[t[i]]]

CR == B(<<"R">>)
LF == B(<<"N">>)
CRLF == B(<<"R", "N">>)
Slash == B(<<"/">>)
Dot == B(<<".">>)
DotDot == B(<<".", ".">>)

(***************************************************************************)
(* String operations of Python used by the server.                         *)
(***************************************************************************)
Drop(s, n) == IF n >= Len(s) THEN <<>> ELSE SubSeq(s, n + 1, Len(s))
Take(s, n) == IF n >= Len(s) THEN s ELSE SubSeq(s, 1, n)

\* s.startswith(p) and s.endswith(p)
StartsWith(s, p) == Len(p) <= Len(s) /\ SubSeq(s, 1, Len(p)) = p
EndsWith(s, p) ==
  Len(p) <= Len(s) /\ SubSeq(s, Len(s) - Len(p) + 1, Len(s)) = p

\* s.find(p) + 1: where p first occurs in s, 0 when it does not
Find(s, p) ==
  LET at == {i \in 1..(Len(s) - Len(p) + 1) : SubSeq(s, i, i + Len(p) - 1) = p}
  IN  IF at = {} THEN 0 ELSE CHOOSE i \in at : \A j \in at : i <= j

\* p in s
Contains(s, p) == Find(s, p) # 0

\* The element of a set of one element. With the set written as
\* {f(v) : v \in {e}}, e is evaluated once, whatever f does with v.
The(S) == CHOOSE x \in S : TRUE

\* s.split(sep): the pieces between the occurrences of sep, at least one.
RECURSIVE Split(_, _)
Split(s, sep) ==
  LET i == Find(s, sep)
  IN  IF i = 0 THEN <<s>>
      ELSE <<Take(s, i - 1)>>
             \o The({Split(rest, sep) : rest \in {Drop(s, i + Len(sep) - 1)}})

\* sep.join(parts)
RECURSIVE Join(_, _)
Join(parts, sep) ==
  IF parts = <<>> THEN <<>>
  ELSE IF Len(parts) = 1 THEN parts[1]
  ELSE parts[1] \o sep \o Join(Tail(parts), sep)

\* s.lstrip(chars), s.rstrip(chars), s.strip(chars) for a set of characters
LStrip(s, chars) ==
  LET keep == {i \in 1..Len(s) : s[i] \notin chars}
  IN  IF keep = {} THEN <<>>
      ELSE Drop(s, (CHOOSE i \in keep : \A j \in keep : i <= j) - 1)

RStrip(s, chars) ==
  LET keep == {i \in 1..Len(s) : s[i] \notin chars}
  IN  IF keep = {} THEN <<>>
      ELSE Take(s, CHOOSE i \in keep : \A j \in keep : i >= j)

Strip(s, chars) == LStrip(RStrip(s, chars), chars)

\* The characters str.strip() removes, among those of the model's alphabet.
Whitespace == {32, 9, 10, 11, 12, 13}

\* s.lower()
Lower(s) == [i \in 1..Len(s) |-> IF s[i] \in 65..90 THEN s[i] + 32 ELSE s[i]]

\* s < t in Python's order of strings (by code point, a prefix first)
RECURSIVE StrLess(_, _)
StrLess(s, t) ==
  IF t = <<>> THEN FALSE
  ELSE IF s = <<>> THEN TRUE
  ELSE IF Head(s) # Head(t) THEN Head(s) < Head(t)
  ELSE StrLess(Tail(s), Tail(t))

\* list.sort() of a list holding the strings of S, each once
RECURSIVE SortStrings(_)
SortStrings(S) ==
  IF S = {} THEN <<>>
  ELSE LET least == CHOOSE s \in S : \A t \in S \ {s} : StrLess(s, t)
       IN  <<least>> \o SortStrings(S \ {least})

(***************************************************************************)
(* Keystream engine: XOR_KEY and xor_mask.                                 *)
(***************************************************************************)
\* a ^ b on the low n bits
RECURSIVE XorBits(_, _, _)
XorBits(a, b, n) ==
  IF n = 0 THEN 0
  ELSE (((a % 2) + (b % 2)) % 2) + 2 * XorBits(a \div 2, b \div 2, n - 1)

Xor(a, b) == XorBits(a, b, 8)

\* len(XOR_KEY): os.urandom(16)
KeyLen == 16

\* The keys os.urandom(16) is drawn from in the model. KeyB turns the
\* letter A into a line feed at the odd positions, so that an obfuscated
\* body has line breaks where its input has none.
KeyA == [i \in 1..KeyLen |-> i]
KeyB == [i \in 1..KeyLen |-> IF i % 2 = 1 THEN 75 ELSE 128 + i]
Keys == {KeyA, KeyB}

\* xor_mask with the key added where it is XORed
xor_mask_add(data, key, offset) ==
  [i \in 1..Len(data) |-> (data[i] + key[((i - 1 + offset) % Len(key)) + 1]) % 256]

\* xor_mask with the offset ignored
xor_mask_no_offset(data, key, offset) ==
  [i \in 1..Len(data) |-> Xor(data[i], key[((i - 1) % Len(key)) + 1])]

\* xor_mask(data, key, offset): enumerate counts from 0, sequences from 1.
xor_mask(data, key, offset) ==
  [i \in 1..Len(data) |-> Xor(data[i], key[((i - 1 + offset) % Len(key)) + 1])]

\* base64.b64encode(data).decode(): the characters of the encoding
B64Char(v) ==
  IF v < 26 THEN 65 + v
  ELSE IF v < 52 THEN 97 + (v - 26)
  ELSE IF v < 62 THEN 48 + (v - 52)
  ELSE IF v = 62 THEN 43 ELSE 47

RECURSIVE b64encode(_)
b64encode(data) ==
  IF data = <<>> THEN <<>>
  ELSE IF Len(data) = 1 THEN
    <<B64Char(data[1] \div 4), B64Char((data[1] % 4) * 16), 61, 61>>
  ELSE IF Len(data) = 2 THEN
    <<B64Char(data[1] \div 4),
      B64Char(((data[1] % 4) * 16) + (data[2] \div 16)),
      B64Char((data[2] % 16) * 4), 61>>
  ELSE
    <<B64Char(data[1] \div 4),
      B64Char(((data[1] % 4) * 16) + (data[2] \div 16)),
      B64Char(((data[2] % 16) * 4) + (data[3] \div 64)),
      B64Char(data[3] % 64)>> \o b64encode(Drop(data, 3))

(***************************************************************************)
(* Paths: urllib.parse.unquote and os.path on POSIX.                       *)
(***************************************************************************)
HexDigits == (48..57) \cup (65..70) \cup (97..102)
HexVal(c) == IF c \in 48..57 THEN c - 48 ELSE IF c \in 65..70 THEN c - 55 ELSE c - 87

\* urllib.parse.unquote(s), for escapes of ASCII characters
RECURSIVE unquote(_)
unquote(s) ==
  IF s = <<>> THEN <<>>
  ELSE IF Head(s) = 37 /\ Len(s) >= 3 /\ s[2] \in HexDigits /\ s[3] \in HexDigits
            /\ (16 * HexVal(s[2])) + HexVal(s[3]) < 128
       THEN <<(16 * HexVal(s[2])) + HexVal(s[3])>> \o unquote(Drop(s, 3))
  ELSE <<Head(s)>> \o unquote(Tail(s))

\* os.path.isabs(p)
isabs(p) == StartsWith(p, Slash)

\* os.path.join(a, b)
join(a, b) ==
  IF isabs(b) THEN b
  ELSE IF a = <<>> \/ EndsWith(a, Slash) THEN a \o b
  ELSE a \o Slash \o b

\* The loop of posixpath.normpath over the components.
RECURSIVE NormComps(_, _, _)
NormComps(comps, initial, acc) ==
  IF comps = <<>> THEN acc
  ELSE LET comp == Head(comps) IN
    IF comp = <<>> \/ comp = Dot THEN NormComps(Tail(comps), initial, acc)
    ELSE IF comp # DotDot
            \/ (~initial /\ acc = <<>>)
            \/ (acc # <<>> /\ acc[Len(acc)] = DotDot)
         THEN NormComps(Tail(comps), initial, Append(acc, comp))
    ELSE IF acc # <<>> THEN NormComps(Tail(comps), initial, Take(acc, Len(acc) - 1))
    ELSE NormComps(Tail(comps), initial, acc)

\* os.path.normpath(path)
normpath(path) ==
  IF path = <<>> THEN Dot
  ELSE LET slashes == IF ~isabs(path) THEN 0
                      ELSE IF StartsWith(path, Slash \o Slash)
                              /\ ~StartsWith(path, Slash \o Slash \o Slash) THEN 2
                      ELSE 1
           body == Join(NormComps(Split(path, Slash), slashes > 0, <<>>), Slash)
           res == IF slashes = 2 THEN Slash \o Slash \o body
                  ELSE IF slashes = 1 THEN Slash \o body
                  ELSE body
       IN  IF res = <<>> THEN Dot ELSE res

\* p.rfind('/') + 1: where the last slash of p stands, 0 when p holds none
LastSlash(p) ==
  LET at == {i \in 1..Len(p) : p[i] = 47}
  IN  IF at = {} THEN 0 ELSE CHOOSE i \in at : \A j \in at : j <= i

\* os.path.basename(p)
basename(p) == Drop(p, LastSlash(p))

\* os.getcwd(): the service root the server was started in
cwd == B(<<"/", "r">>)

\* os.path.abspath(p)
abspath(p) == normpath(join(cwd, p))

\* SCRIPT_ABSPATH = os.path.abspath(__file__)
SCRIPT_ABSPATH == B(<<"/", "r", "/", "u", "p", ".", "p", "y">>)

\* The suffix of a partial upload
PartialSuffix == B(<<".", "p", "a", "r", "t", "i", "a", "l">>)

\* urllib.parse.quote(s): the characters it leaves alone, the others as %XX
QuoteSafe == (48..57) \cup (65..90) \cup (97..122) \cup {95, 46, 45, 126, 47}
HexChar(v) == IF v < 10 THEN 48 + v ELSE 55 + v

RECURSIVE quote(_)
quote(s) ==
  IF s = <<>> THEN <<>>
  ELSE IF Head(s) \in QuoteSafe THEN <<Head(s)>> \o quote(Tail(s))
  ELSE <<37, HexChar(Head(s) \div 16), HexChar(Head(s) % 16)>> \o quote(Tail(s))

(***************************************************************************)
(* The filesystem: a map from absolute paths to directories and files.     *)
(***************************************************************************)
DirNode == [kind |-> "dir", data |-> <<>>]
FileNode(data) == [kind |-> "file", data |-> data]

\* No path: what a lookup yields when a component on the way is missing or
\* is not a directory.
NoPath == <<>>

\* os.path.dirname(p): what stands before the last slash, without the
\* slashes it ends with unless it is made of slashes only
dirname(p) ==
  LET head == Take(p, LastSlash(p))
  IN  IF RStrip(head, {47}) = <<>> THEN head ELSE RStrip(head, {47})

IsDirAt(fsx, p) == p \in DOMAIN fsx /\ fsx[p].kind = "dir"
IsFileAt(fsx, p) == p \in DOMAIN fsx /\ fsx[p].kind = "file"

\* The kernel's walk of a path, component by component, from directory cur:
\* every component but the last must lead through an existing directory.
RECURSIVE OsWalk(_, _, _)
OsWalk(fsx, comps, cur) ==
  IF comps = <<>> THEN cur
  ELSE IF ~IsDirAt(fsx, cur) THEN NoPath
  ELSE LET comp == Head(comps)
           next == IF comp = <<>> \/ comp = Dot THEN cur
                   ELSE IF comp = DotDot THEN dirname(cur)
                   ELSE join(cur, comp)
       IN  The({OsWalk(fsx, rest, d) : rest \in {Tail(comps)}, d \in {next}})

\* The absolute path a path names for the running process
Resolve(fsx, path) ==
  The({OsWalk(fsx, comps, Slash) :
         comps \in {Split(IF isabs(path) THEN path ELSE join(cwd, path), Slash)}})

\* os.path.isdir, os.path.isfile
isdir(fsx, path) == IsDirAt(fsx, Resolve(fsx, path))
isfile(fsx, path) == IsFileAt(fsx, Resolve(fsx, path))

\* os.listdir(path): the names in a directory, in no particular order
listdir(fsx, path) ==
  LET d == Resolve(fsx, path)
  IN  {basename(p) : p \in {q \in DOMAIN fsx : q # d /\ dirname(q) = d}}

\* open(path, 'rb').read()
ReadFile(fsx, path) == fsx[Resolve(fsx, path)].data

\* Whether open(path, 'wb') succeeds: the directory exists and the path
\* does not name a directory.
CanOpenWrite(fsx, path) ==
  LET r == Resolve(fsx, path)
  IN  r # NoPath /\ r # Slash /\ IsDirAt(fsx, dirname(r)) /\ ~IsDirAt(fsx, r)

\* The filesystem with absolute path r holding node
Put(fsx, r, node) ==
  [p \in DOMAIN fsx \cup {r} |-> IF p = r THEN node ELSE fsx[p]]

\* The filesystem without absolute path r
Remove(fsx, r) == [p \in DOMAIN fsx \ {r} |-> fsx[p]]

\* open(path, 'wb') of a partial file that truncates the file of the final
\* name with it
OpenWriteInPlace(fsx, path) ==
  LET final == Resolve(fsx, Take(path, Len(path) - Len(PartialSuffix)))
      opened == Put(fsx, Resolve(fsx, path), FileNode(<<>>))
  IN  IF IsFileAt(fsx, final) THEN Put(opened, final, FileNode(<<>>)) ELSE opened

\* open(path, 'wb'): the file is created, or truncated when it exists
OpenWrite(fsx, path) == Put(fsx, Resolve(fsx, path), FileNode(<<>>))

\* Whether os.rename(src, dst) of a file succeeds
CanRename(fsx, src, dst) ==
  \E rs \in {Resolve(fsx, src)}, rd \in {Resolve(fsx, dst)} :
    /\ IsFileAt(fsx, rs)
    /\ rd # NoPath /\ rd # Slash
    /\ IsDirAt(fsx, dirname(rd))
    /\ ~IsDirAt(fsx, rd)

\* os.rename(src, dst): dst is replaced, src is gone
Rename(fsx, src, dst) ==
  The({IF rs = rd THEN fsx ELSE Remove(Put(fsx, rd, fsx[rs]), rs) :
         rs \in {Resolve(fsx, src)}, rd \in {Resolve(fsx, dst)}})

\* The tree the server is started in: the service root /r with the server's
\* own program, a hidden file and a directory; beside it a directory /r2
\* whose name begins like the root's, and a file /s above the root.
InitFs ==
  LET entries == {
        <<Slash, DirNode>>,
        <<cwd, DirNode>>,
        <<SCRIPT_ABSPATH, FileNode(B(<<"#">>))>>,
        <<B(<<"/", "r", "/", ".", "h">>), FileNode(B(<<"h">>))>>,
        <<B(<<"/", "r", "/", "s", "u", "b">>), DirNode>>,
        <<B(<<"/", "r", "/", "s", "u", "b", "/", "s">>), FileNode(B(<<"b">>))>>,
        <<B(<<"/", "r", "2">>), DirNode>>,
        <<B(<<"/", "r", "2", "/", "s">>), FileNode(B(<<"2">>))>>,
        <<B(<<"/", "s">>), FileNode(B(<<"e">>))>> }
  IN  [p \in {e[1] : e \in entries} |-> (CHOOSE e \in entries : e[1] = p)[2]]

(***************************************************************************)
(* Responses.                                                              *)
(***************************************************************************)
NoResponse == [status |-> 0, kind |-> "none"]
\* send_error(code, ...) and send_response(code) with a short message
ErrorResponse(code) == [status |-> code, kind |-> "error"]
\* send_response(303) with Location: /
Redirect == [status |-> 303, kind |-> "redirect", location |-> Slash]

(***************************************************************************)
(* SimpleFileServer.list_directory                                         *)
(***************************************************************************)
\* Blocked with the test of the partial-upload suffix left out
BlockedNoPartial(path, entry) ==
  \/ StartsWith(entry, Dot)
  \/ abspath(join(path, entry)) = SCRIPT_ABSPATH

\* The entries the listing skips (line 80)
Blocked(path, entry) ==
  \/ StartsWith(entry, Dot)
  \/ EndsWith(entry, PartialSuffix)
  \/ abspath(join(path, entry)) = SCRIPT_ABSPATH

\* One <li> of the listing
ListItem(fsx, path, rel_path, entry) ==
  [label |-> IF isdir(fsx, join(path, entry)) THEN "D" ELSE "F",
   href |-> quote(join(rel_path, entry)),
   name |-> entry]

RECURSIVE ListItems(_, _, _, _)
ListItems(fsx, path, rel_path, entries) ==
  IF entries = <<>> THEN <<>>
  ELSE IF Blocked(path, Head(entries))
       THEN ListItems(fsx, path, rel_path, Tail(entries))
  ELSE <<ListItem(fsx, path, rel_path, Head(entries))>>
         \o ListItems(fsx, path, rel_path, Tail(entries))

\* list_directory(rel_path): entries.sort() puts os.listdir's names in order.
list_directory(fsx, no_smuggling, key, rel_path) ==
  LET path == join(cwd, rel_path)
      entries == SortStrings(listdir(fsx, path))
  IN  [status |-> 200,
       kind |-> "listing",
       form |-> IF no_smuggling THEN "plain" ELSE "smuggle",
       key_b64 |-> IF no_smuggling THEN <<>> ELSE b64encode(key),
       up |-> IF abspath(rel_path) # abspath(Dot)
              THEN <<quote(normpath(join(rel_path, DotDot)))>>
              ELSE <<>>,
       items |-> ListItems(fsx, path, rel_path, entries)]

(***************************************************************************)
(* SimpleFileServer.serve_smuggled_html and the plain download             *)
(***************************************************************************)
xor_encrypt(data, key) == xor_mask(data, key, 0)
xor_decrypt(data, key) == xor_mask(data, key, 0)

\* serve_smuggled_html with a key generated for the page
serve_smuggled_html_own_key(fsx, key, local_path, file_name) ==
  [status |-> 200,
   kind |-> "smuggled",
   d |-> b64encode(xor_mask(ReadFile(fsx, local_path), KeyB, 0)),
   k |-> b64encode(KeyB),
   n |-> b64encode(xor_mask(file_name, KeyB, 0))]

\* serve_smuggled_html(local_path, filename): the three values the page holds
serve_smuggled_html(fsx, key, local_path, file_name) ==
  [status |-> 200,
   kind |-> "smuggled",
   d |-> b64encode(xor_encrypt(ReadFile(fsx, local_path), key)),
   k |-> b64encode(key),
   n |-> b64encode(xor_mask(file_name, key, 0))]

\* The plain download of do_GET (lines 165-174)
serve_plain(fsx, local_path) ==
  [status |-> 200,
   kind |-> "raw",
   filename |-> basename(local_path),
   data |-> ReadFile(fsx, local_path)]

(***************************************************************************)
(* SimpleFileServer.do_GET                                                 *)
(***************************************************************************)
\* The three paths do_GET derives from a request path: safe_path and
\* local_path (lines 147-149) and os.path.abspath(local_path).
GetPlan(path) ==
  LET safe_path == normpath(LStrip(unquote(path), {47}))
      local_path == join(cwd, safe_path)
  IN  [path |-> path, safe_path |-> safe_path, local_path |-> local_path,
       abs_path |-> abspath(local_path)]

\* The sandbox test of do_GET (line 153): a prefix test on strings
InSandbox(abs_path) == StartsWith(abs_path, cwd)

\* do_GET for the request path of plan g: the response, and the absolute
\* paths of the files and directories whose content was read to produce it.
do_GET(fsx, no_smuggling, key, g) ==
  IF ~InSandbox(g.abs_path)
    THEN [response |-> ErrorResponse(403), reads |-> {}]
  ELSE IF g.abs_path = SCRIPT_ABSPATH
    THEN [response |-> ErrorResponse(403), reads |-> {}]
  ELSE IF isdir(fsx, g.local_path)
    THEN [response |-> list_directory(fsx, no_smuggling, key, g.safe_path),
          reads |-> {Resolve(fsx, g.local_path)}]
  ELSE IF isfile(fsx, g.local_path)
    THEN [response |-> IF no_smuggling
                       THEN serve_plain(fsx, g.local_path)
                       ELSE serve_smuggled_html(fsx, key, g.local_path,
                                                basename(g.local_path)),
          reads |-> {Resolve(fsx, g.local_path)}]
  ELSE [response |-> ErrorResponse(404), reads |-> {}]

(***************************************************************************)
(* Reading the request body: rfile.readline() and the part headers.        *)
(***************************************************************************)
\* The number of bytes up to and including the first line feed of s, or all
\* of s when it holds none.
LineLen(s) == IF Find(s, LF) = 0 THEN Len(s) ELSE Find(s, LF)

\* rfile.readline(): the next line with its line feed, b"" at the end of
\* the stream; `rest` is what stays unread.
readline(stream) ==
  [line |-> Take(stream, LineLen(stream)), rest |-> Drop(stream, LineLen(stream))]

\* The header loop (lines 206-212): the header lines joined, and what of
\* the stream stays unread after the blank line.
RECURSIVE ReadHeaders(_, _)
ReadHeaders(stream, headers) ==
  LET r == readline(stream)
  IN  IF r.line \in {CRLF, LF, <<>>}
        THEN [headers |-> headers, rest |-> r.rest]
      ELSE ReadHeaders(r.rest, headers \o r.line)

\* Where the first line break of s starts, 0 when s holds none
BreakAt(s) ==
  LET at == {i \in 1..Len(s) : s[i] \in {10, 13}}
  IN  IF at = {} THEN 0 ELSE CHOOSE i \in at : \A j \in at : i <= j

\* str.splitlines() for the line breaks \r\n, \n and \r
RECURSIVE splitlines(_)
splitlines(s) ==
  LET i == BreakAt(s)
  IN  IF s = <<>> THEN <<>>
      ELSE IF i = 0 THEN <<s>>
      ELSE <<Take(s, i - 1)>>
             \o splitlines(Drop(s, IF StartsWith(Drop(s, i - 1), CRLF) THEN i + 1 ELSE i))

ContentDisposition ==
  B(<<"c","o","n","t","e","n","t","-","d","i","s","p","o","s","i","t","i","o","n",":">>)
FilenameEq == B(<<"f","i","l","e","n","a","m","e","=">>)
MultipartFormData ==
  B(<<"m","u","l","t","i","p","a","r","t","/","f","o","r","m","-","d","a","t","a">>)
BoundaryEq == B(<<"b","o","u","n","d","a","r","y","=">>)
TwoDashes == B(<<"-", "-">>)

\* No filename: the None of line 214
NoName == <<>>

\* The inner loop over the parts of one Content-Disposition line
\* (lines 218-221): the first part that starts with filename= decides.
RECURSIVE FilenameOfParts(_, _)
FilenameOfParts(parts, found) ==
  IF parts = <<>> THEN found
  ELSE LET p == Strip(Head(parts), Whitespace) IN
    IF StartsWith(p, FilenameEq)
      THEN Strip(Split(p, B(<<"=">>))[2], {34})
    ELSE FilenameOfParts(Tail(parts), found)

\* The loop over the header lines (lines 215-221): a later
\* Content-Disposition line with a filename overrides an earlier one.
RECURSIVE FilenameOfLines(_, _)
FilenameOfLines(lines, found) ==
  IF lines = <<>> THEN found
  ELSE IF StartsWith(Lower(Head(lines)), ContentDisposition)
       THEN FilenameOfLines(Tail(lines),
              FilenameOfParts(Split(Head(lines), B(<<";">>)), found))
  ELSE FilenameOfLines(Tail(lines), found)

\* ParseFilename with the name f for a part that carries none
ParseFilenameDefault(headers) ==
  IF FilenameOfLines(splitlines(headers), NoName) = NoName
    THEN B(<<"f">>)
  ELSE FilenameOfLines(splitlines(headers), NoName)

ParseFilename(headers) == FilenameOfLines(splitlines(headers), NoName)

\* boundary = content_type.split('boundary=')[-1]
BoundaryOf(content_type) ==
  LET parts == Split(content_type, BoundaryEq) IN parts[Len(parts)]

(***************************************************************************)
(* The chunked write of do_POST.                                           *)
(***************************************************************************)
\* The inner loop (lines 240-246): while the buffer holds a chunk, cut it
\* off, transform it at the running offset and write it. `written` is what
\* the loop has appended to the file.
\* The inner loop with every chunk transformed at offset 0
RECURSIVE FlushChunksNoOffset(_, _, _, _, _)
FlushChunksNoOffset(buf, offset, written, no_smuggling, key) ==
  IF Len(buf) < CHUNK_SIZE
    THEN [buffer |-> buf, xor_offset |-> offset, written |-> written]
  ELSE LET chunk == Take(buf, CHUNK_SIZE)
           out == IF no_smuggling THEN chunk ELSE xor_mask(chunk, key, 0)
       IN  FlushChunksNoOffset(Drop(buf, CHUNK_SIZE), offset + Len(out),
                               written \o out, no_smuggling, key)

RECURSIVE FlushChunks(_, _, _, _, _)
FlushChunks(buf, offset, written, no_smuggling, key) ==
  IF Len(buf) < CHUNK_SIZE
    THEN [buffer |-> buf, xor_offset |-> offset, written |-> written]
  ELSE LET chunk == Take(buf, CHUNK_SIZE)
           out == IF no_smuggling THEN chunk ELSE xor_mask(chunk, key, offset)
       IN  FlushChunks(Drop(buf, CHUNK_SIZE), offset + Len(out),
                       written \o out, no_smuggling, key)

\* Lines 248-252: one trailing line terminator is cut off the buffer.
TrimTerminator(buf) ==
  IF EndsWith(buf, CRLF) THEN Take(buf, Len(buf) - 2)
  ELSE IF EndsWith(buf, LF) THEN Take(buf, Len(buf) - 1)
  ELSE buf

\* Lines 254-257: what the last write appends to the file
FinalWrite(buf, offset, no_smuggling, key) ==
  IF no_smuggling THEN buf ELSE xor_mask(buf, key, offset)

\* out_file.write(data) on the file at absolute path r
AppendTo(fsx, r, data) == Put(fsx, r, FileNode(fsx[r].data \o data))

\* An except block that deletes the partial file
ExceptCleanupUnlink(fsx, temp) ==
  IF Resolve(fsx, temp) \in DOMAIN fsx THEN Remove(fsx, Resolve(fsx, temp)) ELSE fsx

\* The filesystem after the except block (lines 266-270), which answers 500
\* and removes nothing.
ExceptCleanup(fsx, temp) == fsx

(***************************************************************************)
(* The requests clients send.                                              *)
(***************************************************************************)
RECURSIVE SeqsUpTo(_, _)
SeqsUpTo(S, n) ==
  IF n = 0 THEN {<<>>}
  ELSE LET shorter == SeqsUpTo(S, n - 1)
       IN  shorter \cup {Append(q, x) : q \in shorter, x \in S}

\* The segments GET request paths are built from: the parent directory,
\* plain and percent-encoded, and the names found in the tree.
GetSegments ==
  { DotDot,
    B(<<"%", "2", "e", "%", "2", "e">>),
    B(<<"s", "u", "b">>),
    B(<<"s">>),
    B(<<"r", "2">>),
    B(<<"u", "p", ".", "p", "y">>),
    B(<<"f">>) \o PartialSuffix }

GetPaths == {Slash \o Join(segs, Slash) : segs \in SeqsUpTo(GetSegments, MaxDepth)}

\* GetPlan, computed once for every request path
GetPlans == {GetPlan(path) : path \in GetPaths}

\* The file names uploads carry: a new file, the name of an existing
\* directory, a name that climbs out of the service root, and the name of
\* the server's own program.
UploadNames ==
  { B(<<"f">>),
    B(<<"s", "u", "b">>),
    B(<<".", ".", "/", "x">>),
    B(<<"u", "p", ".", "p", "y">>) }

\* The files clients upload: the letter A up to one chunk plus one byte, and
\* a file of two lines of one chunk each, which takes two chunk writes and a
\* last write.
Letters(n) == [i \in 1..n |-> 65]
TwoLines == Letters(CHUNK_SIZE) \o LF \o Letters(CHUNK_SIZE)

Inputs == SeqsUpTo({65}, CHUNK_SIZE + 1) \cup {TwoLines}

\* What the upload form's script sends for a file (lines 46-50): the file
\* XORed with the key from position 0; the plain form sends the file.
ClientPayload(input, no_smuggling, key) ==
  IF no_smuggling THEN input
  ELSE [i \in 1..Len(input) |-> Xor(input[i], key[((i - 1) % Len(key)) + 1])]

BoundaryX == B(<<"X">>)
ContentTypeX == MultipartFormData \o B(<<";", " ">>) \o BoundaryEq \o BoundaryX
ContentTypeText == B(<<"t", "e", "x", "t", "/", "p", "l", "a", "i", "n">>)

\* Content-Disposition: form-data; name="file"; filename="<name>"
DispositionLine(name) ==
  B(<<"C","o","n","t","e","n","t","-","D","i","s","p","o","s","i","t","i","o","n",":"," ",
      "f","o","r","m","-","d","a","t","a",";"," ","n","a","m","e","=","q","f","i","l","e","q">>)
  \o (IF name = NoName THEN <<>>
      ELSE B(<<";", " ">>) \o FilenameEq \o B(<<"q">>) \o name \o B(<<"q">>))
  \o CRLF

\* How a body ends after the payload: the line terminator and the closing
\* boundary line ("crlf"; "lf" for a client that ends lines with a bare line
\* feed), or nothing at all when the client is gone before it has sent them
\* ("eof").
Tails == {"crlf", "eof"}

BodyTail(tail) ==
  IF tail = "crlf" THEN CRLF \o TwoDashes \o BoundaryX \o TwoDashes \o CRLF
  ELSE IF tail = "lf" THEN LF \o TwoDashes \o BoundaryX \o TwoDashes \o LF
  ELSE <<>>

\* A multipart body with one file part
MultipartBody(opening, name, payload, tail) ==
  TwoDashes \o opening \o CRLF \o DispositionLine(name) \o CRLF
    \o payload \o BodyTail(tail)

GetRequest(path) ==
  [method |-> "GET", path |-> path, content_type |-> <<>>, body |-> <<>>,
   name |-> NoName, input |-> <<>>, tail |-> "none"]

\* The upload of file `input` under `name`
UploadRequest(name, input, tail, no_smuggling, key) ==
  [method |-> "POST", path |-> Slash, content_type |-> ContentTypeX,
   body |-> MultipartBody(BoundaryX, name,
                          ClientPayload(input, no_smuggling, key), tail),
   name |-> name, input |-> input, tail |-> tail]

\* Requests the upload refuses: not multipart, a first line that is not the
\* boundary, a part without a file name.
BadRequests ==
  { [method |-> "POST", path |-> Slash, content_type |-> ContentTypeText,
     body |-> B(<<"A">>), name |-> NoName, input |-> <<>>, tail |-> "bad"],
    [method |-> "POST", path |-> Slash, content_type |-> ContentTypeX,
     body |-> MultipartBody(B(<<"Y">>), B(<<"f">>), B(<<"A">>), "crlf"),
     name |-> NoName, input |-> <<>>, tail |-> "bad"],
    [method |-> "POST", path |-> Slash, content_type |-> ContentTypeX,
     body |-> MultipartBody(BoundaryX, NoName, B(<<"A">>), "crlf"),
     name |-> NoName, input |-> <<>>, tail |-> "bad"] }

\* The POST requests sent to a server with the given flag and key
RequestsFor(no_smuggling, key) ==
  {UploadRequest(name, input, tail, no_smuggling, key) :
     name \in UploadNames, input \in Inputs, tail \in Tails}
  \cup BadRequests

(***************************************************************************)
(* The server.                                                             *)
(***************************************************************************)
VARIABLES
  fs,                      \* the filesystem
  XOR_KEY,                 \* the key generated at startup
  disable_html_smuggling,  \* the server's --no-html-smuggling flag
  backlog,                 \* connections waiting to be accepted: for each,
                           \* whether it arrived while a request was handled
  served,                  \* connections accepted so far
  pc,                      \* where the handler is
  req,                     \* the request being handled
  overlapped,              \* whether its connection arrived during the previous request
  prev,                    \* the last upload answered 303 before it, and
                           \* the name of the upload that last left its
                           \* partial file behind
  response,                \* the response sent
  reads,                   \* absolute paths whose content do_GET read
  exc,                     \* the exception do_POST caught
  rfile,                   \* what of the request body is unread
  boundary, filename, temp_filename,
  out_file,                \* absolute path of the open partial file
  buffer, xor_offset

vars ==
  <<fs, XOR_KEY, disable_html_smuggling, backlog, served, pc, req, overlapped,
    prev, response, reads, exc, rfile, boundary, filename, temp_filename,
    out_file, buffer, xor_offset>>

NoPrev == [filename |-> NoName, input |-> <<>>, failed |-> NoName]

Init ==
  /\ fs = InitFs
  /\ disable_html_smuggling \in BOOLEAN
  /\ XOR_KEY \in Keys
  /\ backlog = <<>>
  /\ served = 0
  /\ pc = "idle"
  /\ req = GetRequest(Slash)
  /\ overlapped = FALSE
  /\ prev = NoPrev
  /\ response = NoResponse
  /\ reads = {}
  /\ exc = "none"
  /\ rfile = <<>>
  /\ boundary = <<>>
  /\ filename = NoName
  /\ temp_filename = NoName
  /\ out_file = NoPath
  /\ buffer = <<>>
  /\ xor_offset = 0

\* The handler is not running: serve_forever is waiting for a connection.
HandlerIdle == pc \in {"idle", "done"}

\* A client connects. HTTPServer handles one request at a time, so a
\* connection that arrives while a request is handled waits in the backlog.
Connect ==
  /\ Len(backlog) + served < MaxRequests
  /\ backlog' = Append(backlog, ~HandlerIdle)
  /\ UNCHANGED <<fs, XOR_KEY, disable_html_smuggling, served, pc, req,
                 overlapped, prev, response, reads, exc, rfile, boundary,
                 filename, temp_filename, out_file, buffer, xor_offset>>

\* serve_forever accepts the next connection once the handler has returned.
CanAccept == HandlerIdle /\ backlog # <<>>

\* What accepting a connection does to the bookkeeping of the model.
Accept(r) ==
  /\ CanAccept
  /\ backlog' = Tail(backlog)
  /\ served' = served + 1
  /\ overlapped' = Head(backlog)
  /\ req' = r
  /\ prev' = IF pc = "done" /\ req.method = "POST" /\ response.status = 303
             THEN [filename |-> filename, input |-> req.input, failed |-> NoName]
             ELSE IF pc = "done" /\ exc \in {"read", "write", "rename"}
             THEN [prev EXCEPT !.failed = filename]
             ELSE prev
  /\ UNCHANGED <<XOR_KEY, disable_html_smuggling>>

\* do_GET, for a request path
Get(g) ==
  /\ Accept(GetRequest(g.path))
  /\ LET r == do_GET(fs, disable_html_smuggling, XOR_KEY, g)
     IN  /\ response' = r.response
         /\ reads' = r.reads
  /\ pc' = "done"
  /\ exc' = "none"
  /\ rfile' = <<>>
  /\ boundary' = <<>>
  /\ filename' = NoName
  /\ temp_filename' = NoName
  /\ out_file' = NoPath
  /\ buffer' = <<>>
  /\ xor_offset' = 0
  /\ UNCHANGED fs

(***************************************************************************)
(* SimpleFileServer.do_POST                                                *)
(***************************************************************************)
\* The content-type test of do_POST with the test left out
IsMultipartAlways(content_type) == TRUE

\* 'multipart/form-data' in content_type (line 186)
IsMultipart(content_type) == Contains(content_type, MultipartFormData)

\* do_POST returns without having opened a file.
PostReturn(code, exception, unread) ==
  [pc |-> "done", response |-> ErrorResponse(code), exc |-> exception,
   rfile |-> unread, boundary |-> <<>>, filename |-> NoName,
   temp_filename |-> NoName]

\* do_POST from its first line to the name of the partial file
\* (lines 184-229) for request r: where the handler stands before line 230.
PostParse(r) ==
  IF ~IsMultipart(r.content_type)
    THEN PostReturn(400, "none", r.body)
  ELSE
    LET b == BoundaryOf(r.content_type)
        delimiter == TwoDashes \o b
        first == readline(r.body)
    IN
    IF ~StartsWith(first.line, delimiter)
      THEN PostReturn(400, "none", first.rest)
    ELSE
      LET h == ReadHeaders(first.rest, <<>>)
          name == ParseFilename(h.headers)
      IN
      IF name = NoName
        THEN PostReturn(400, "none", h.rest)
      ELSE [pc |-> "open", response |-> NoResponse, exc |-> "none",
            rfile |-> h.rest, boundary |-> b, filename |-> name,
            temp_filename |-> name \o PartialSuffix]

\* PostParse, computed once for every request sent to a server with a given
\* flag and key
UploadPlans ==
  UNION {{[no_smuggling |-> w[1], key |-> w[2], req |-> r, parsed |-> PostParse(r)] :
            r \in RequestsFor(w[1], w[2])} : w \in BOOLEAN \X Keys}

\* do_POST is entered for a request and runs up to the body loop: the
\* request is parsed and the partial file is opened (line 230), which
\* raises when the file cannot be created.
PostBegin(e) ==
  /\ Accept(e.req)
  /\ rfile' = e.parsed.rfile
  /\ boundary' = e.parsed.boundary
  /\ filename' = e.parsed.filename
  /\ temp_filename' = e.parsed.temp_filename
  /\ IF e.parsed.pc = "done"
       THEN /\ pc' = "done"
            /\ response' = e.parsed.response
            /\ exc' = "none"
            /\ out_file' = NoPath
            /\ fs' = fs
     ELSE IF ~CanOpenWrite(fs, e.parsed.temp_filename)
       THEN /\ pc' = "done"
            /\ response' = ErrorResponse(500)
            /\ exc' = "open"
            /\ out_file' = NoPath
            /\ fs' = fs
     ELSE /\ pc' = "body"
          /\ response' = NoResponse
          /\ exc' = "none"
          /\ out_file' = Resolve(fs, e.parsed.temp_filename)
          /\ fs' = OpenWrite(fs, e.parsed.temp_filename)
  /\ reads' = {}
  /\ buffer' = <<>>
  /\ xor_offset' = 0

\* The test that ends the body loop without the test for the end of the
\* stream
EndsBodyAtBoundary(line) == StartsWith(line, TwoDashes \o boundary)

\* The line that ends the body loop: the boundary, or the end of the stream
\* (lines 235-238).
EndsBody(line) == StartsWith(line, TwoDashes \o boundary) \/ line = <<>>

\* One turn of the body loop (lines 233-246).
PostLine ==
  /\ pc = "body"
  /\ \E r \in {readline(rfile)} :
       LET f == FlushChunks(buffer \o r.line, xor_offset, <<>>,
                            disable_html_smuggling, XOR_KEY)
       IN
         /\ rfile' = r.rest
         /\ IF EndsBody(r.line)
              THEN /\ pc' = "finish"
                   /\ UNCHANGED <<fs, buffer, xor_offset>>
              ELSE /\ pc' = "body"
                   /\ buffer' = f.buffer
                   /\ xor_offset' = f.xor_offset
                   /\ fs' = AppendTo(fs, out_file, f.written)
  /\ UNCHANGED <<XOR_KEY, disable_html_smuggling, backlog, served, req,
                 overlapped, prev, response, reads, exc, boundary, filename,
                 temp_filename, out_file>>

\* An exception inside the with block: the file is closed, the except block
\* answers 500.
Raise(exception) ==
  /\ pc' = "done"
  /\ exc' = exception
  /\ response' = ErrorResponse(500)
  /\ out_file' = NoPath
  /\ fs' = ExceptCleanup(fs, temp_filename)
  /\ UNCHANGED <<XOR_KEY, disable_html_smuggling, backlog, served, req,
                 overlapped, prev, reads, rfile, boundary, filename,
                 temp_filename, buffer, xor_offset>>

\* rfile.readline() raises: the connection was reset.
PostReadError ==
  /\ pc = "body"
  /\ Raise("read")

\* Whether the handler is about to write to the partial file: in the body
\* loop when the next line fills a chunk, after it when bytes are left.
WriteDue ==
  IF pc = "body"
    THEN LET r == readline(rfile)
         IN  ~EndsBody(r.line) /\ Len(buffer \o r.line) >= CHUNK_SIZE
  ELSE pc = "finish" /\ TrimTerminator(buffer) # <<>>

\* out_file.write() raises: the disk is full.
PostWriteError ==
  /\ WriteDue
  /\ Raise("write")

\* After the loop (lines 248-258): the terminator is trimmed, the rest is
\* written and the file is closed.
PostFinish ==
  /\ pc = "finish"
  /\ LET rest == TrimTerminator(buffer)
         out == FinalWrite(rest, xor_offset, disable_html_smuggling, XOR_KEY)
     IN  /\ buffer' = out
         /\ fs' = IF rest # <<>> THEN AppendTo(fs, out_file, out) ELSE fs
  /\ out_file' = NoPath
  /\ pc' = "rename"
  /\ UNCHANGED <<XOR_KEY, disable_html_smuggling, backlog, served, req,
                 overlapped, prev, response, reads, exc, rfile, boundary,
                 filename, temp_filename, xor_offset>>

\* os.rename and the response (lines 260-264); the except block when the
\* rename raises.
PostRename ==
  /\ pc = "rename"
  /\ IF CanRename(fs, temp_filename, filename)
       THEN /\ fs' = Rename(fs, temp_filename, filename)
            /\ response' = Redirect
            /\ exc' = "none"
       ELSE /\ fs' = ExceptCleanup(fs, temp_filename)
            /\ response' = ErrorResponse(500)
            /\ exc' = "rename"
  /\ pc' = "done"
  /\ UNCHANGED <<XOR_KEY, disable_html_smuggling, backlog, served, req,
                 overlapped, prev, reads, rfile, boundary, filename,
                 temp_filename, out_file, buffer, xor_offset>>

Next ==
  \/ Connect
  \/ (CanAccept /\ \E g \in GetPlans : Get(g))
  \/ (CanAccept /\ \E e \in UploadPlans :
                     /\ e.no_smuggling = disable_html_smuggling
                     /\ e.key = XOR_KEY
                     /\ PostBegin(e))
  \/ PostLine
  \/ PostReadError
  \/ PostWriteError
  \/ PostFinish
  \/ PostRename

Spec == Init /\ [][Next]_vars

\* The server from its start to the end of the first request, an upload.
PostNext ==
  \/ Connect
  \/ (CanAccept /\ served = 0 /\ \E e \in UploadPlans :
                                    /\ e.no_smuggling = disable_html_smuggling
                                    /\ e.key = XOR_KEY
                                    /\ PostBegin(e))
  \/ PostLine
  \/ PostReadError
  \/ PostWriteError
  \/ PostFinish
  \/ PostRename

\* The handler is sequential code on the server's only thread: once do_POST
\* is entered, its next statement runs, unless an exception takes its place.
FairSpec ==
  /\ Init
  /\ [][PostNext]_vars
  /\ WF_vars(PostLine)
  /\ WF_vars(PostFinish)
  /\ WF_vars(PostRename)

(***************************************************************************)
(* Properties of do_GET.                                                   *)
(***************************************************************************)
\* Whether absolute path p is the service root or lies below it
Inside(p) == p = cwd \/ StartsWith(p, cwd \o Slash)

\* The handler has returned from do_GET
GetDone == pc = "done" /\ req.method = "GET"

\* The absolute path the request just answered resolves to
RequestedAbs == GetPlan(req.path).abs_path

\* C1: a GET whose path, URL-decoded and normalized against the service
\* root, resolves to a location outside the service root is answered 403,
\* never 200, and nothing at that location is read.
C1_OutsideRootForbidden ==
  (GetDone /\ ~Inside(RequestedAbs)) => (response.status = 403 /\ reads = {})

\* A GET for a location outside the service root was answered 200 with the
\* content of that location.
C1_OutsideRootServed ==
  /\ GetDone
  /\ ~Inside(RequestedAbs)
  /\ response.status = 200
  /\ reads = {RequestedAbs}

\* C8: a file whose name ends with .partial is never fetchable: a GET that
\* addresses it by path is never answered 200.
C8_PartialNeverFetched ==
  (GetDone /\ EndsWith(RequestedAbs, PartialSuffix) /\ IsFileAt(fs, RequestedAbs))
    => response.status # 200

\* A GET for a partial file left by a failed upload was answered 200 with
\* the file.
C8_PartialFetched ==
  /\ GetDone
  /\ EndsWith(RequestedAbs, PartialSuffix)
  /\ IsFileAt(fs, RequestedAbs)
  /\ response.status = 200
  /\ response.kind \in {"raw", "smuggled"}

\* The names a listing of directory d must show
Visible(d) ==
  {basename(p) : p \in {q \in DOMAIN fs :
       /\ q # d
       /\ dirname(q) = d
       /\ ~StartsWith(basename(q), Dot)
       /\ ~EndsWith(basename(q), PartialSuffix)
       /\ q # SCRIPT_ABSPATH}}

\* Listing page r shows exactly the visible names of directory d, in
\* lexical order.
ListingRight(r, d) ==
  /\ {r.items[i].name : i \in DOMAIN r.items} = Visible(d)
  /\ \A i, j \in DOMAIN r.items : i < j => StrLess(r.items[i].name, r.items[j].name)

\* C9: in every reachable filesystem state the listing of a directory holds,
\* in lexical order, exactly the entries whose name does not start with a
\* dot, does not end with .partial and is not the server's own program:
\* the listing of the service root the server would produce whenever it can
\* accept a request, and every listing it has served.
C9_ListingShowsVisibleSorted ==
  /\ HandlerIdle =>
       ListingRight(list_directory(fs, disable_html_smuggling, XOR_KEY, Dot), cwd)
  /\ (GetDone /\ response.kind = "listing")
       => ListingRight(response, Resolve(fs, GetPlan(req.path).local_path))

\* The root was listed while it held a partial file and an uploaded file.
C9_ListedBesidePartial ==
  /\ GetDone
  /\ response.kind = "listing"
  /\ RequestedAbs = cwd
  /\ \E p \in DOMAIN fs : dirname(p) = cwd /\ EndsWith(p, PartialSuffix)
  /\ Len(response.items) >= 1

\* The download do_GET serves for a file
ServedFile(r, p) ==
  IF disable_html_smuggling
    THEN r.kind = "raw" /\ r.data = fs[p].data
  ELSE r.kind = "smuggled" /\ r.d = b64encode(xor_mask(fs[p].data, XOR_KEY, 0))

\* C10: every GET has the one outcome its resolved path determines: 403
\* outside the sandbox or at the server's own program, whether or not
\* anything exists there; else 200 with the listing for a directory; else
\* 200 with the file, raw or smuggled; else 404.
C10_GetOutcome ==
  GetDone =>
    IF ~Inside(RequestedAbs) \/ RequestedAbs = SCRIPT_ABSPATH
      THEN response.status = 403
    ELSE IF IsDirAt(fs, RequestedAbs)
      THEN response.status = 200 /\ response.kind = "listing"
    ELSE IF IsFileAt(fs, RequestedAbs)
      THEN response.status = 200 /\ ServedFile(response, RequestedAbs)
    ELSE response.status = 404

\* A GET for a directory outside the service root was answered with its
\* listing.
C10_OutsideListed ==
  /\ GetDone
  /\ ~Inside(RequestedAbs)
  /\ IsDirAt(fs, RequestedAbs)
  /\ response.status = 200
  /\ response.kind = "listing"

(***************************************************************************)
(* Properties of do_POST.                                                  *)
(***************************************************************************)
\* The handler has returned from do_POST
PostDone == pc = "done" /\ req.method = "POST"

\* The upload was answered 303
Succeeded == PostDone /\ response.status = 303

\* Whether the file of that name exists and holds exactly data
Holds(name, data) ==
  LET r == Resolve(fs, name) IN IsFileAt(fs, r) /\ fs[r].data = data

\* The absolute paths created, removed or rewritten since the server started
Changed ==
  {p \in DOMAIN fs \cup DOMAIN InitFs :
     \/ p \notin DOMAIN fs
     \/ p \notin DOMAIN InitFs
     \/ fs[p] # InitFs[p]}

\* C2: the sandbox check is applied to an upload's file name before any
\* write, so no POST creates, truncates or renames a file outside the
\* service root or at the server's own program path.
C2_UploadsStayInSandbox ==
  \A p \in Changed : Inside(p) /\ p # SCRIPT_ABSPATH

\* An upload was answered 303 after writing a file above the service root.
C2_WroteOutsideRoot ==
  /\ Succeeded
  /\ ~Inside(Resolve(fs, filename))
  /\ Resolve(fs, filename) \in Changed

\* C3: for a well-formed body (payload, line terminator, closing boundary
\* line) the stored file is byte-identical to the client's input, at every
\* payload length, in obfuscated and in plain mode.
C3_UploadRoundTrip ==
  (Succeeded /\ req.tail = "crlf") => Holds(filename, req.input)

\* A well-formed upload of one chunk minus one byte was answered 303 and
\* the stored file is one byte longer than the input.
C3_StoredWithTerminator ==
  /\ Succeeded
  /\ req.tail = "crlf"
  /\ Len(req.input) = CHUNK_SIZE - 1
  /\ IsFileAt(fs, Resolve(fs, filename))
  /\ Len(fs[Resolve(fs, filename)].data) = CHUNK_SIZE
  /\ Take(fs[Resolve(fs, filename)].data, CHUNK_SIZE - 1) = req.input

\* C4: when an upload of F is answered 303, F holds the de-obfuscated
\* payload and F.partial does not exist; F.partial exists from the start of
\* the body loop to the rename.
C4_SuccessLeavesFinalFile ==
  /\ Succeeded =>
       /\ Holds(filename, req.input)
       /\ Resolve(fs, temp_filename) \notin DOMAIN fs
  /\ pc \in {"body", "finish", "rename"} => IsFileAt(fs, Resolve(fs, temp_filename))

\* An upload was answered 303, its partial file is gone and the final file
\* does not hold the payload.
C4_FinalFileDiffers ==
  /\ Succeeded
  /\ Resolve(fs, temp_filename) \notin DOMAIN fs
  /\ IsFileAt(fs, Resolve(fs, filename))
  /\ fs[Resolve(fs, filename)].data # req.input

\* C5: when the request stream ends before the closing boundary line was
\* read, the upload is aborted: no success response, the partial file is
\* left in place and is not renamed to the final name.
C5_DisconnectAborts ==
  (PostDone /\ req.tail = "eof") =>
    /\ response.status # 303
    /\ IsFileAt(fs, Resolve(fs, temp_filename))

\* The stream of an upload ended without the closing boundary line, and the
\* upload was answered 303 with the partial file renamed to the final name.
C5_DisconnectPromoted ==
  /\ Succeeded
  /\ req.tail = "eof"
  /\ rfile = <<>>
  /\ Resolve(fs, temp_filename) \notin DOMAIN fs
  /\ IsFileAt(fs, Resolve(fs, filename))

\* do_POST caught an exception after the partial file was opened
FailedAfterOpen == PostDone /\ exc \in {"read", "write", "rename"}

\* A partial file leaves the filesystem only by the rename of a successful
\* upload.
PartialOnlyRenamed ==
  \A p \in DOMAIN fs :
    (EndsWith(p, PartialSuffix) /\ p \notin DOMAIN fs')
      => /\ pc = "rename"
         /\ p = Resolve(fs, temp_filename)
         /\ response'.status = 303

\* C6: an exception in do_POST after the partial file was opened (write
\* error, rename failure, read error) is answered 500 and leaves F.partial
\* in place; do_POST never unlinks a partial file.
C6_ExceptionLeavesPartial ==
  /\ [](FailedAfterOpen =>
          /\ response.status = 500
          /\ IsFileAt(fs, Resolve(fs, temp_filename)))
  /\ [][PartialOnlyRenamed]_vars

\* A write to the partial file raised after a chunk had been written: the
\* answer is 500 and the partial file holds the chunk.
C6_WriteFailed ==
  /\ PostDone
  /\ exc = "write"
  /\ response.status = 500
  /\ IsFileAt(fs, Resolve(fs, temp_filename))
  /\ Len(fs[Resolve(fs, temp_filename)].data) = CHUNK_SIZE

\* The upload just answered 303 arrived while an earlier upload to the same
\* name, also answered 303, was being handled
SecondOfTwo ==
  /\ Succeeded
  /\ overlapped
  /\ prev # NoPrev
  /\ prev.filename = filename

\* C7: of two uploads to the same name whose handling overlaps, the final
\* file holds the complete payload of exactly one, never a mixture. (The
\* server accepts a connection only when the handler has returned, so the
\* two never write at the same time.)
C7_OneUploadWins ==
  SecondOfTwo => (Holds(filename, prev.input) \/ Holds(filename, req.input))

\* Two overlapping uploads to one name were both answered 303 and the final
\* file holds the payload of neither.
C7_NeitherPayload ==
  /\ SecondOfTwo
  /\ req.tail = "crlf"
  /\ prev.input # req.input
  /\ IsFileAt(fs, Resolve(fs, filename))
  /\ fs[Resolve(fs, filename)].data \notin {prev.input, req.input}

(***************************************************************************)
(* Properties of the requests do_POST refuses.                             *)
(***************************************************************************)
\* The step in which a POST is accepted and do_POST is entered
PostEntered == served' = served + 1 /\ req'.method = "POST"

\* A request whose first body line does not start with '--' + boundary
WrongOpening(r) ==
  ~StartsWith(readline(r.body).line, TwoDashes \o BoundaryOf(r.content_type))

\* The header lines of the part: from the first body line to the blank line
PartHeaders(r) == ReadHeaders(readline(r.body).rest, <<>>).headers

\* A request whose part headers hold no filename parameter
NoFilenameParam(r) == ~Contains(PartHeaders(r), FilenameEq)

RefusedNotMultipart ==
  (PostEntered /\ ~Contains(req'.content_type, MultipartFormData))
    => /\ pc' = "done"
       /\ response'.status = 400
       /\ fs' = fs
       /\ rfile' = req'.body

\* C11: a POST whose Content-Type does not contain multipart/form-data is
\* answered 400, the filesystem is left as it was (no partial file, no final
\* file) and no byte of the body is consumed.
C11_NotMultipartRefused == [][RefusedNotMultipart]_vars

\* A POST of type text/plain with a body was answered 400 with the body
\* unread.
C11_TextPlainRefused ==
  /\ PostDone
  /\ req.content_type = ContentTypeText
  /\ req.body # <<>>
  /\ response.status = 400
  /\ rfile = req.body

RefusedMalformed ==
  (/\ PostEntered
   /\ Contains(req'.content_type, MultipartFormData)
   /\ (WrongOpening(req') \/ NoFilenameParam(req')))
    => /\ pc' = "done"
       /\ response'.status = 400
       /\ fs' = fs

\* C12: a multipart POST whose first body line does not match '--' +
\* boundary, or whose part headers carry no filename parameter, is answered
\* 400 and no file, partial or final, is created or modified.
C12_MalformedRefused == [][RefusedMalformed]_vars

\* A multipart POST with the right opening line and no filename parameter
\* was answered 400, the payload unread.
C12_NoFilenameRefused ==
  /\ PostDone
  /\ Contains(req.content_type, MultipartFormData)
  /\ ~WrongOpening(req)
  /\ NoFilenameParam(req)
  /\ response.status = 400
  /\ rfile # <<>>

(***************************************************************************)
(* xor_mask on its own: applied to a byte string at an offset, once and    *)
(* again, and applied chunk by chunk at the running offset, as the upload  *)
(* and the download apply it. The byte string is in req.input, the key in  *)
(* XOR_KEY, the offset in xor_offset, what is still to transform in rfile  *)
(* and the result in buffer.                                               *)
(***************************************************************************)
MaskBytes == {0, 65, 255}
MaskData == SeqsUpTo(MaskBytes, MaxMaskLen)

\* Keys of one byte, of two bytes and of os.urandom(16)'s length
MaskKeys == {<<90>>, <<1, 254>>, KeyA, KeyB}

MaskRequest(d) ==
  [method |-> "NONE", path |-> <<>>, content_type |-> <<>>, body |-> <<>>,
   name |-> NoName, input |-> d, tail |-> "none"]

MaskInit ==
  /\ \E d \in MaskData : req = MaskRequest(d) /\ rfile = d
  /\ XOR_KEY \in MaskKeys
  /\ \/ pc = "mask" /\ xor_offset \in 0..MaxOffset
     \/ pc = "chunks" /\ xor_offset = 0
  /\ buffer = <<>>
  /\ fs = InitFs
  /\ disable_html_smuggling = FALSE
  /\ backlog = <<>>
  /\ served = 0
  /\ overlapped = FALSE
  /\ prev = NoPrev
  /\ response = NoResponse
  /\ reads = {}
  /\ exc = "none"
  /\ boundary = <<>>
  /\ filename = NoName
  /\ temp_filename = NoName
  /\ out_file = NoPath

\* xor_mask(data, key, offset)
MaskOnce ==
  /\ pc = "mask"
  /\ buffer' = xor_mask(rfile, XOR_KEY, xor_offset)
  /\ rfile' = <<>>
  /\ pc' = "masked"
  /\ UNCHANGED <<fs, XOR_KEY, disable_html_smuggling, backlog, served, req,
                 overlapped, prev, response, reads, exc, boundary, filename,
                 temp_filename, out_file, xor_offset>>

\* xor_mask of the result, with the same key and offset
MaskAgain ==
  /\ pc = "masked"
  /\ buffer' = xor_mask(buffer, XOR_KEY, xor_offset)
  /\ pc' = "unmasked"
  /\ UNCHANGED <<fs, XOR_KEY, disable_html_smuggling, backlog, served, req,
                 overlapped, prev, response, reads, exc, rfile, boundary,
                 filename, temp_filename, out_file, xor_offset>>

\* xor_mask of the next n bytes at the running offset, appended to the
\* result
MaskChunk(n) ==
  /\ pc = "chunks"
  /\ n \in 1..Len(rfile)
  /\ buffer' = buffer \o xor_mask(Take(rfile, n), XOR_KEY, xor_offset)
  /\ rfile' = Drop(rfile, n)
  /\ xor_offset' = xor_offset + n
  /\ UNCHANGED <<fs, XOR_KEY, disable_html_smuggling, backlog, served, pc,
                 req, overlapped, prev, response, reads, exc, boundary,
                 filename, temp_filename, out_file>>

MaskNext ==
  \/ MaskOnce
  \/ MaskAgain
  \/ \E n \in 1..MaxMaskLen : MaskChunk(n)

MaskSpec == MaskInit /\ [][MaskNext]_vars

\* C13: xor_mask with a fixed non-empty key and a fixed offset is an
\* involution, and its result is as long as its argument.
C13_MaskInvolution ==
  /\ pc = "masked" => Len(buffer) = Len(req.input)
  /\ pc = "unmasked" => buffer = req.input

\* A string of the greatest length was masked twice with a 16-byte key at
\* an offset past the end of the key.
C13_MaskedTwice ==
  /\ pc = "unmasked"
  /\ Len(req.input) = MaxMaskLen
  /\ Len(XOR_KEY) = KeyLen
  /\ xor_offset > KeyLen
  /\ buffer = req.input

\* C14: for every split of a byte string into contiguous chunks, the chunks
\* masked at the offsets where they start, concatenated, are the mask of the
\* whole string at offset 0.
C14_ChunkComposition ==
  pc = "chunks" =>
    /\ rfile = Drop(req.input, xor_offset)
    /\ buffer = xor_mask(Take(req.input, xor_offset), XOR_KEY, 0)

\* A string of the greatest length was masked in chunks to its end with a
\* key of several bytes.
C14_MaskedInChunks ==
  /\ pc = "chunks"
  /\ rfile = <<>>
  /\ Len(req.input) = MaxMaskLen
  /\ Len(XOR_KEY) > 1
  /\ buffer = xor_mask(req.input, XOR_KEY, 0)
  /\ buffer # req.input

(***************************************************************************)
(* Properties of the session key and of the body loop of do_POST.          *)
(***************************************************************************)
\* The bytes of the request body after the part headers
PartBody(r) == ReadHeaders(readline(r.body).rest, <<>>).rest

InBodyLoop == pc = "body" /\ req.method = "POST"

Smuggling == ~disable_html_smuggling

\* The page a GET answers with carries XOR_KEY: the upload form of a
\* listing, and the key and the masked content of a download.
PagesCarrySessionKey ==
  GetDone =>
    /\ (response.kind = "listing" /\ response.form = "smuggle")
         => response.key_b64 = b64encode(XOR_KEY)
    /\ response.kind = "smuggled"
         => /\ response.k = b64encode(XOR_KEY)
            /\ \E p \in reads :
                 response.d = b64encode(xor_mask(fs[p].data, XOR_KEY, 0))

\* What the body loop has written is the body masked with XOR_KEY.
UploadUnmaskedWithSessionKey ==
  (InBodyLoop /\ Smuggling) =>
    fs[out_file].data = xor_mask(Take(PartBody(req), xor_offset), XOR_KEY, 0)

\* C15: the session key never changes while the server runs, and the key in
\* the upload form of a listing, the key of a smuggled download and the key
\* an upload is de-obfuscated with are all that key.
C15_OneSessionKey ==
  /\ [][XOR_KEY' = XOR_KEY]_vars
  /\ []PagesCarrySessionKey
  /\ []UploadUnmaskedWithSessionKey

\* An upload obfuscated with the key of the form was de-obfuscated and
\* stored, and the download that follows carries the same key.
C15_DownloadAfterUpload ==
  /\ GetDone
  /\ response.kind = "smuggled"
  /\ response.k = b64encode(XOR_KEY)
  /\ prev.input # <<>>
  /\ Holds(prev.filename, prev.input)

\* What the body loop has written to the partial file
Written == fs[out_file].data

\* The body from the first byte the loop has not written yet
Unwritten == Drop(PartBody(req), xor_offset)

\* C16: in the body loop xor_offset is the number of bytes already written
\* to the partial file, so every chunk is transformed at the offset where
\* it lands; every write inside the loop is of exactly CHUNK_SIZE bytes;
\* after each line the buffer holds fewer than CHUNK_SIZE bytes; and in
\* plain mode the bytes are written as they came.
C16_OffsetIsBytesWritten ==
  (pc \in {"body", "finish"} /\ req.method = "POST") =>
    /\ xor_offset = Len(Written)
    /\ xor_offset % CHUNK_SIZE = 0
    /\ Len(buffer) < CHUNK_SIZE
    /\ buffer = Take(Unwritten, Len(buffer))
    /\ Written = IF disable_html_smuggling
                   THEN Take(PartBody(req), xor_offset)
                   ELSE xor_mask(Take(PartBody(req), xor_offset), XOR_KEY, 0)

\* The loop has written two chunks of an obfuscated upload, the second at
\* the offset of one chunk, and holds a rest in the buffer.
C16_SecondChunkWritten ==
  /\ InBodyLoop
  /\ Smuggling
  /\ xor_offset = 2 * CHUNK_SIZE
  /\ Len(Written) = 2 * CHUNK_SIZE
  /\ buffer # <<>>

(***************************************************************************)
(* Properties of the stored file and of its partial file.                  *)
(***************************************************************************)
\* The absolute paths a step creates, removes or rewrites
Touched ==
  {p \in DOMAIN fs \cup DOMAIN fs' :
     \/ p \notin DOMAIN fs
     \/ p \notin DOMAIN fs'
     \/ fs'[p] # fs[p]}

\* A step touches the partial file of the upload in hand, or it is the
\* rename that ends a successful upload and puts the partial file in the
\* place of the final one.
OnlyRenameTouchesFinal ==
  \A p \in Touched :
    \/ /\ temp_filename' # NoName
       /\ p = Resolve(fs, temp_filename')
    \/ /\ pc = "rename"
       /\ response'.status = 303
       /\ p = Resolve(fs, filename)

\* C17: a POST changes the stored file F only by the rename that ends it;
\* until then, and in an upload that ends in 400 or 500, a file F that was
\* there before is untouched, and the body is written to F.partial only.
C17_FinalFileOnlyRenamed == [][OnlyRenameTouchesFinal]_vars

\* A second upload to the name of a stored file failed on a write after it
\* had written to the partial file, and the stored file is as the first
\* upload left it.
C17_FailedBesideStored ==
  /\ PostDone
  /\ response.status = 500
  /\ exc = "write"
  /\ prev.filename = filename
  /\ isfile(fs, filename)
  /\ isfile(fs, temp_filename)
  /\ fs[Resolve(fs, temp_filename)].data # <<>>
  /\ fs[Resolve(fs, filename)].data # fs[Resolve(fs, temp_filename)].data

(***************************************************************************)
(* Termination of do_POST.                                                 *)
(***************************************************************************)
\* do_POST has opened the partial file and has not returned
PostRunning == pc \in {"body", "finish", "rename"} /\ req.method = "POST"

\* C18: do_POST terminates on every request whose body is finite: the
\* header loop, the body loop and the chunk loop all end; and it answers
\* with exactly one status, which is 303, 400 or 500.
C18_PostTerminates ==
  /\ [](PostRunning => response = NoResponse)
  /\ [](PostDone => response.status \in {303, 400, 500})
  /\ (PostRunning ~> PostDone)

\* The body loop ran to the end of a stream that holds no closing boundary,
\* and the handler returned with an answer.
C18_ReturnedAtEndOfStream ==
  /\ PostDone
  /\ req.tail = "eof"
  /\ rfile = <<>>
  /\ exc = "none"
  /\ response.status = 303

(***************************************************************************)
(* An upload after a failed upload of the same name.                       *)
(***************************************************************************)
\* The upload just answered 303 follows an upload of the same name that
\* failed after it had opened the partial file.
SucceededAfterFailure == Succeeded /\ prev.failed = filename

\* C19: a partial file left by a failed upload of F never contaminates a
\* later upload of F: after the successful upload F holds exactly the
\* payload of that upload, and F.partial is gone.
C19_LeftoverPartialHarmless ==
  SucceededAfterFailure =>
    /\ Holds(filename, req.input)
    /\ Resolve(fs, temp_filename) \notin DOMAIN fs

\* An upload answered 303 after a failed upload of the same name, and the
\* file does not hold its payload.
C19_StoredAfterFailureDiffers ==
  /\ SucceededAfterFailure
  /\ isfile(fs, filename)
  /\ ~Holds(filename, req.input)

====
